---- MODULE Spec2Model ----
(***************************************************************************)
(* Event-sourced Dispense aggregate, the CQRS execution engine that runs   *)
(* its commands against the event log, the synchronous view projector and  *)
(* the change-feed publisher, the batch stream consumers and the analysis  *)
(* pipeline driven by upload notifications.                                *)
(***************************************************************************)
EXTENDS Integers, Sequences, FiniteSets, TLC

(***************************************************************************)
(* Bounds and input sets                                                   *)
(***************************************************************************)
\* Spec takes no new request once this many commits have been made.
MaxTick == 2
\* SpecReplay takes no new request once this many commits have been made
\* (enough to load a snapshot and an event after it).
MaxReplayTick == 7
\* SpecSeq takes no new request once this many commits have been made.
MaxSeqTick == 4
\* SpecAmend takes no new request once this many commits have been made (one
\* more than the four that complete a dispense).
MaxAmendTick == 5
\* Largest batch handed to a stream consumer.
MaxBatch == 3
\* Number of batches delivered to a view in SpecView.
MaxDeliveries == 2
\* Number of duplicate deliveries of one batch in SpecView.
MaxDups == 2
\* Largest change-feed batch handed to the publisher.
MaxFeed == 3
\* Number of times the failed items of a change-feed batch are delivered again.
MaxRetries == 1
\* Largest batch of upload notifications handed to the analysis pipeline.
MaxS3Batch == 2
\* Number of times one batch of upload notifications is delivered.
MaxS3Deliveries == 2
\* In SpecPipeline the API client takes no new request once this many commits
\* have been made.
MaxPipelineTick == 2

\* PersistedEventStore::new_snapshot_store(repo, 5)
SnapshotSize == 5

AggIds == {"d1", "d2"}
Workers == {"w1", "w2"}

\* Option::None of the optional string fields.
None == "None"

Aspirin == [drug_id |-> "a", name |-> "Aspirin", quantity |-> 30]
Ibuprofen == [drug_id |-> "b", name |-> "Ibuprofen", quantity |-> 20]
DrugLists == {<<>>, <<Aspirin>>, <<Ibuprofen, Aspirin>>}

Uploads == {[prescription_id |-> "rx1", url |-> "s3://b/prescriptions/d1/rx1"],
            [prescription_id |-> "rx2", url |-> "s3://b/prescriptions/d1/rx2"]}
Patients == {[patient_id |-> "p1", name |-> "Jane"],
             [patient_id |-> "p2", name |-> "John"]}

(***************************************************************************)
(* Domain: aggregate, commands, events                                     *)
(***************************************************************************)
DispenseStatus == {"Pending", "Analyzing", "Ready", "Complete", "Cancelled"}

AGGREGATE_TYPE == "Dispense"

\* #[derive(Default)] for Dispense: empty id, epoch timestamps, Pending.
DefaultDispense ==
    [id |-> "", created_at |-> 0, updated_at |-> 0, status |-> "Pending",
     prescription_id |-> None, prescription_url |-> None,
     prescription_analyzed |-> FALSE,
     patient_id |-> None, patient_name |-> None,
     drugs |-> <<>>, deleted |-> FALSE]

\* The commands a caller can build for aggregate id a from the given inputs.
CommandsOver(a, uploads, patients, drug_lists) ==
    {[type |-> "StartDispense", id |-> a]}
    \cup {[type |-> "UploadPrescription", prescription_id |-> u.prescription_id,
           url |-> u.url] : u \in uploads}
    \cup {[type |-> "AnalyzePrescription", analysis_data |-> "{}"]}
    \cup {[type |-> "AddPatient", patient_id |-> p.patient_id, name |-> p.name] :
            p \in patients}
    \cup {[type |-> "AddDrugs", drugs |-> ds] : ds \in drug_lists}
    \cup {[type |-> "CompleteDispense"], [type |-> "CancelDispense"]}

\* Every command type, with an empty and a non-empty drug list.
Commands(a) ==
    CommandsOver(a, {[prescription_id |-> "rx1", url |-> "s3://b/prescriptions/d1/rx1"]},
                 {[patient_id |-> "p1", name |-> "Jane"]},
                 {<<>>, <<Aspirin>>})

\* Every command type with two values of each parameter (three drug lists).
SeqCommands(a) == CommandsOver(a, Uploads, Patients, DrugLists)

\* Every command type with one value of each parameter.
ReplayCommands(a) ==
    CommandsOver(a, {[prescription_id |-> "rx1", url |-> "s3://b/prescriptions/d1/rx1"]},
                 {[patient_id |-> "p1", name |-> "Jane"]},
                 {<<Aspirin>>})

\* validate_new without its check of the id.
validate_new_skipped(self) == "Ok"

validate_new(self) ==
    IF self.id # "" THEN "Uniqueness" ELSE "Ok"

\* validate_existing that also refuses an aggregate in a terminal status.
validate_existing_unless_terminal(self) ==
    IF self.id = "" THEN "NotFound"
    ELSE IF self.deleted THEN "Forbidden"
    ELSE IF self.status \in {"Complete", "Cancelled"} THEN "InvalidStateTransition"
    ELSE "Ok"

\* validate_existing without its check of the empty id.
validate_existing_deleted_only(self) ==
    IF self.deleted THEN "Forbidden" ELSE "Ok"

validate_existing(self) ==
    IF self.id = "" THEN "NotFound"
    ELSE IF self.deleted THEN "Forbidden"
    ELSE "Ok"

\* validate_can_complete without its check of the drug list.
validate_can_complete_patient_only(self) ==
    IF self.patient_id = None THEN "Validation" ELSE "Ok"

validate_can_complete(self) ==
    IF self.patient_id = None THEN "Validation"
    ELSE IF self.drugs = <<>> THEN "Validation"
    ELSE "Ok"

Ok(events) == [ok |-> TRUE, err |-> "Ok", events |-> events]
Err(e) == [ok |-> FALSE, err |-> e, events |-> <<>>]

\* Dispense::handle; now is the reading of Utc::now().
handle(self, command, now) ==
    CASE command.type = "StartDispense" ->
           IF validate_new(self) # "Ok" THEN Err(validate_new(self))
           ELSE Ok(<<[type |-> "DispenseStarted", id |-> command.id,
                      created_at |-> now, status |-> "Pending"]>>)
      [] command.type = "UploadPrescription" ->
           IF validate_existing(self) # "Ok" THEN Err(validate_existing(self))
           ELSE Ok(<<[type |-> "PrescriptionUploaded", id |-> self.id,
                      prescription_id |-> command.prescription_id,
                      url |-> command.url, updated_at |-> now]>>)
      [] command.type = "AnalyzePrescription" ->
           IF validate_existing(self) # "Ok" THEN Err(validate_existing(self))
           ELSE Ok(<<[type |-> "PrescriptionAnalyzed", id |-> self.id,
                      analysis_data |-> command.analysis_data,
                      updated_at |-> now]>>)
      [] command.type = "AddPatient" ->
           IF validate_existing(self) # "Ok" THEN Err(validate_existing(self))
           ELSE Ok(<<[type |-> "PatientAdded", id |-> self.id,
                      patient_id |-> command.patient_id,
                      patient_name |-> command.name, updated_at |-> now]>>)
      [] command.type = "AddDrugs" ->
           IF validate_existing(self) # "Ok" THEN Err(validate_existing(self))
           ELSE Ok(<<[type |-> "DrugsAdded", id |-> self.id,
                      drugs |-> command.drugs, updated_at |-> now]>>)
      [] command.type = "CompleteDispense" ->
           IF validate_existing(self) # "Ok" THEN Err(validate_existing(self))
           ELSE IF validate_can_complete(self) # "Ok"
                THEN Err(validate_can_complete(self))
           ELSE Ok(<<[type |-> "DispenseCompleted", id |-> self.id,
                      updated_at |-> now]>>)
      [] command.type = "CancelDispense" ->
           IF validate_existing(self) # "Ok" THEN Err(validate_existing(self))
           ELSE Ok(<<[type |-> "DispenseCancelled", id |-> self.id,
                      updated_at |-> now]>>)

\* Dispense::apply with DrugsAdded extending the list instead of replacing it.
apply_extending_drugs(self, event) ==
    CASE event.type = "DispenseStarted" ->
           [self EXCEPT !.id = event.id, !.created_at = event.created_at,
                        !.updated_at = event.created_at,
                        !.status = event.status]
      [] event.type = "PrescriptionUploaded" ->
           [self EXCEPT !.prescription_id = event.prescription_id,
                        !.prescription_url = event.url,
                        !.status = "Analyzing",
                        !.updated_at = event.updated_at]
      [] event.type = "PrescriptionAnalyzed" ->
           [self EXCEPT !.prescription_analyzed = TRUE,
                        !.status = "Ready",
                        !.updated_at = event.updated_at]
      [] event.type = "PatientAdded" ->
           [self EXCEPT !.patient_id = event.patient_id,
                        !.patient_name = event.patient_name,
                        !.updated_at = event.updated_at]
      [] event.type = "DrugsAdded" ->
           [self EXCEPT !.drugs = @ \o event.drugs,
                        !.updated_at = event.updated_at]
      [] event.type = "DispenseCompleted" ->
           [self EXCEPT !.status = "Complete",
                        !.updated_at = event.updated_at]
      [] event.type = "DispenseCancelled" ->
           [self EXCEPT !.status = "Cancelled",
                        !.updated_at = event.updated_at]

\* Dispense::apply
apply(self, event) ==
    CASE event.type = "DispenseStarted" ->
           [self EXCEPT !.id = event.id, !.created_at = event.created_at,
                        !.updated_at = event.created_at,
                        !.status = event.status]
      [] event.type = "PrescriptionUploaded" ->
           [self EXCEPT !.prescription_id = event.prescription_id,
                        !.prescription_url = event.url,
                        !.status = "Analyzing",
                        !.updated_at = event.updated_at]
      [] event.type = "PrescriptionAnalyzed" ->
           [self EXCEPT !.prescription_analyzed = TRUE,
                        !.status = "Ready",
                        !.updated_at = event.updated_at]
      [] event.type = "PatientAdded" ->
           [self EXCEPT !.patient_id = event.patient_id,
                        !.patient_name = event.patient_name,
                        !.updated_at = event.updated_at]
      [] event.type = "DrugsAdded" ->
           [self EXCEPT !.drugs = event.drugs,
                        !.updated_at = event.updated_at]
      [] event.type = "DispenseCompleted" ->
           [self EXCEPT !.status = "Complete",
                        !.updated_at = event.updated_at]
      [] event.type = "DispenseCancelled" ->
           [self EXCEPT !.status = "Cancelled",
                        !.updated_at = event.updated_at]

\* DomainEvent::event_type
event_type(event) ==
    CASE event.type = "DispenseStarted" -> "Dispense:Started"
      [] event.type = "PrescriptionUploaded" -> "Dispense:PrescriptionUploaded"
      [] event.type = "PrescriptionAnalyzed" -> "Dispense:PrescriptionAnalyzed"
      [] event.type = "PatientAdded" -> "Dispense:PatientAdded"
      [] event.type = "DrugsAdded" -> "Dispense:DrugsAdded"
      [] event.type = "DispenseCompleted" -> "Dispense:Completed"
      [] event.type = "DispenseCancelled" -> "Dispense:Cancelled"

\* DomainEvent::event_version
event_version(event) == "1.0"

\* Ulid::new().to_string() for the n-th reading of the clock.
Ulid(n) == ToString(n)


(***************************************************************************)
(* State                                                                   *)
(***************************************************************************)
VARIABLES
    log,        \* event log table: aggregate id -> sequence of event log records
    snap,       \* snapshot table: aggregate id -> snapshot record
    views,      \* view table: aggregate id -> [version, payload]
    wk,         \* per worker: the command execution in flight
    tick,       \* the clock: number of commits so far
    uv,         \* SpecView: the view under duplicate delivery
    ub,         \* SpecView: the batch delivered last
    uonce,      \* SpecView: the view after the first delivery of that batch
    deliveries, \* SpecView: number of batches delivered
    dups,       \* SpecView: number of duplicate deliveries of that batch
    consumer,   \* SpecConsumer, SpecPublisher: which consumer handles the batch
    records,    \* SpecConsumer, SpecPublisher: the batch of records
    idx,        \* SpecConsumer, SpecPublisher: number of records the loop has passed
    attempted,  \* SpecConsumer: indices of the records handle_record was called on
    batch_item_failures, \* SpecConsumer, SpecPublisher: the failure list built so far
    kinesis,    \* SpecPublisher: the records put on the event stream, in order
    accepted,   \* SpecPublisher: indices of the batch whose put_record succeeded
    rejected,   \* SpecPublisher: indices of the batch whose put_record failed
    round,      \* SpecPublisher: number of re-deliveries of failed items so far
    feed,       \* SpecPublisher: the change-feed batch as first delivered
    s3records,  \* SpecPipeline: the batch of upload notifications
    s3pos,      \* SpecPipeline: number of records the loop has passed
    s3pc,       \* SpecPipeline: position of handle_s3_event within the loop body
    s3result,   \* SpecPipeline: what handle_s3_event returned
    s3seen,     \* SpecPipeline: indices of the records the loop has reached
    s3issued,   \* SpecPipeline: the commands executed, with their results
    s3deliveries, \* SpecPipeline: number of deliveries of the batch so far
    s3once      \* SpecPipeline: the event log when the first delivery returned

engineVars == <<log, snap, views, wk, tick>>
viewVars == <<uv, ub, uonce, deliveries, dups>>
consumerVars == <<consumer, records, idx, attempted, batch_item_failures>>
publisherVars == <<kinesis, accepted, rejected, round, feed>>
pipelineVars == <<s3records, s3pos, s3pc, s3result, s3seen, s3issued,
                  s3deliveries, s3once>>
vars == <<log, snap, views, wk, tick, uv, ub, uonce, deliveries, dups,
          consumer, records, idx, attempted, batch_item_failures,
          kinesis, accepted, rejected, round, feed,
          s3records, s3pos, s3pc, s3result, s3seen, s3issued,
          s3deliveries, s3once>>

(***************************************************************************)
(* Serialization (serde): DispenseStatus is written in lowercase           *)
(***************************************************************************)
status_to_json(s) ==
    CASE s = "Pending" -> "pending"
      [] s = "Analyzing" -> "analyzing"
      [] s = "Ready" -> "ready"
      [] s = "Complete" -> "complete"
      [] s = "Cancelled" -> "cancelled"

status_from_json(j) ==
    CASE j = "pending" -> "Pending"
      [] j = "analyzing" -> "Analyzing"
      [] j = "ready" -> "Ready"
      [] j = "complete" -> "Complete"
      [] j = "cancelled" -> "Cancelled"

serialize_dispense(d) == [d EXCEPT !.status = status_to_json(d.status)]
deserialize_dispense(j) == [j EXCEPT !.status = status_from_json(j.status)]

serialize_event(e) ==
    IF e.type = "DispenseStarted"
    THEN [e EXCEPT !.status = status_to_json(e.status)] ELSE e
deserialize_event(j) ==
    IF j.type = "DispenseStarted"
    THEN [j EXCEPT !.status = status_from_json(j.status)] ELSE j

(***************************************************************************)
(* Event store: PersistedEventStore over the event log and snapshot tables *)
(***************************************************************************)
NoSnapshot ==
    [aggregate |-> serialize_dispense(DefaultDispense),
     current_sequence |-> 0, current_snapshot |-> 0]

EmptyContext ==
    [aggregate |-> DefaultDispense, current_sequence |-> 0, current_snapshot |-> 0]

RECURSIVE replay(_, _)
\* for envelope in events_to_apply { current_sequence = sequence; aggregate.apply(payload) }
replay(context, envelopes) ==
    IF envelopes = <<>> THEN context
    ELSE replay([context EXCEPT
                   !.current_sequence = Head(envelopes).sequence,
                   !.aggregate = apply(@, deserialize_event(Head(envelopes).payload))],
                Tail(envelopes))

\* load_aggregate: the latest snapshot and the events after it, or the full history.
load_aggregate(a) ==
    LET s == snap[a]
        base == IF s.current_snapshot > 0
                THEN [aggregate |-> deserialize_dispense(s.aggregate),
                      current_sequence |-> s.current_sequence,
                      current_snapshot |-> s.current_snapshot]
                ELSE EmptyContext
    IN replay(base, SubSeq(log[a], base.current_sequence + 1, Len(log[a])))

\* Number of the new events the next snapshot covers (0: no snapshot is due).
commit_snapshot_to_event(max_size, current_sequence, num_events) ==
    LET next_snapshot_at == max_size - (current_sequence % max_size)
    IN IF num_events < next_snapshot_at THEN 0
       ELSE max_size * ((num_events - next_snapshot_at) \div max_size)
            + next_snapshot_at

\* wrap_events numbering from current_sequence + 2: a gap in the stream.
wrap_events_skipping(a, current_sequence, events, metadata) ==
    [i \in 1..Len(events) |->
        [aggregate_id |-> a, aggregate_type |-> AGGREGATE_TYPE,
         sequence |-> current_sequence + i + 1,
         event_type |-> event_type(events[i]),
         event_version |-> event_version(events[i]),
         payload |-> serialize_event(events[i]),
         metadata |-> metadata]]

\* wrap_events: the records of the new events, numbered after current_sequence.
wrap_events(a, current_sequence, events, metadata) ==
    [i \in 1..Len(events) |->
        [aggregate_id |-> a, aggregate_type |-> AGGREGATE_TYPE,
         sequence |-> current_sequence + i,
         event_type |-> event_type(events[i]),
         event_version |-> event_version(events[i]),
         payload |-> serialize_event(events[i]),
         metadata |-> metadata]]

RECURSIVE apply_all(_, _)
apply_all(aggregate, events) ==
    IF events = <<>> THEN aggregate
    ELSE apply_all(apply(aggregate, Head(events)), Tail(events))

\* A write without its condition: never refused.
commit_conflict_unchecked(a, context, events) == FALSE

\* The conditional write is refused: a record with one of the new sequence
\* numbers exists, or the snapshot to replace is not the one that was loaded.
commit_conflict(a, context, events) ==
    \/ \E i \in 1..Len(events) : context.current_sequence + i <= Len(log[a])
    \/ /\ commit_snapshot_to_event(SnapshotSize, context.current_sequence, Len(events)) > 0
       /\ snap[a].current_snapshot # context.current_snapshot

committed_log(a, context, events, metadata) ==
    log[a] \o wrap_events(a, context.current_sequence, events, metadata)

\* A snapshot of the loaded state, without the events being committed.
committed_snapshot_stale(a, context, events) ==
    LET n == commit_snapshot_to_event(SnapshotSize, context.current_sequence, Len(events))
    IN IF n = 0 THEN snap[a]
       ELSE [aggregate |-> serialize_dispense(context.aggregate),
             current_sequence |-> context.current_sequence + Len(events),
             current_snapshot |-> context.current_snapshot + 1]

committed_snapshot(a, context, events) ==
    LET n == commit_snapshot_to_event(SnapshotSize, context.current_sequence, Len(events))
    IN IF n = 0 THEN snap[a]
       ELSE [aggregate |-> serialize_dispense(
                              apply_all(context.aggregate, SubSeq(events, 1, n))),
             current_sequence |-> context.current_sequence + Len(events),
             current_snapshot |-> context.current_snapshot + 1]


\* A commit whose refused write has already put the new records in the log.
commit_partial(a, context, events, metadata) ==
    [ok |-> ~commit_conflict(a, context, events),
     log |-> log[a] \o wrap_events(a, context.current_sequence, events, metadata),
     snap |-> committed_snapshot(a, context, events),
     committed |-> wrap_events(a, context.current_sequence, events, metadata)]

\* PersistedEventStore::commit: one conditional transactional write of the new
\* records (and of the snapshot when one is due); refused, nothing is written.
commit(a, context, events, metadata) ==
    IF commit_conflict(a, context, events)
    THEN [ok |-> FALSE, log |-> log[a], snap |-> snap[a], committed |-> <<>>]
    ELSE [ok |-> TRUE,
          log |-> committed_log(a, context, events, metadata),
          snap |-> committed_snapshot(a, context, events),
          committed |-> wrap_events(a, context.current_sequence, events, metadata)]

(***************************************************************************)
(* View projector                                                          *)
(***************************************************************************)
DefaultView ==
    [aggregate_type |-> "", command_id |-> "", id |-> "",
     dispense |-> DefaultDispense]

\* View::update
View_update(view, event) ==
    [id |-> event.aggregate_id,
     aggregate_type |-> AGGREGATE_TYPE,
     command_id |-> IF "command_id" \in DOMAIN event.metadata
                    THEN event.metadata["command_id"] ELSE "",
     dispense |-> apply(view.dispense, event.payload)]

RECURSIVE update_all(_, _)
\* for event in events { view.update(event) }
update_all(view, events) ==
    IF events = <<>> THEN view
    ELSE update_all(View_update(view, Head(events)), Tail(events))

serialize_view(v) == [v EXCEPT !.dispense = serialize_dispense(v.dispense)]
deserialize_view(j) == [j EXCEPT !.dispense = deserialize_dispense(j.dispense)]

\* A view table row; version 0 stands for no row.
NoViewRow == [version |-> 0, payload |-> serialize_view(DefaultView)]

\* A dispatch that hands the error of Query::update on to the engine.
Query_dispatch_propagating(update_result) == update_result

\* Query::dispatch: an error of Query::update is printed, nothing is returned.
Query_dispatch(update_result) == "Ok"

(***************************************************************************)
(* Command execution: CqrsFramework::execute_with_metadata                 *)
(***************************************************************************)
NoCommand == [type |-> "None"]

IdleWorker ==
    [pc |-> "idle", agg |-> "", context |-> EmptyContext,
     cmd |-> NoCommand, events |-> <<>>, res |-> "",
     view |-> DefaultView, view_version |-> 0, verr |-> FALSE]

\* In-memory EventEnvelope of a committed record.
envelope(r) ==
    [aggregate_id |-> r.aggregate_id, sequence |-> r.sequence,
     payload |-> deserialize_event(r.payload), metadata |-> r.metadata]

Init ==
    /\ log = [a \in AggIds |-> <<>>]
    /\ snap = [a \in AggIds |-> NoSnapshot]
    /\ views = [a \in AggIds |-> NoViewRow]
    /\ wk = [w \in Workers |-> IdleWorker]
    /\ tick = 0
    /\ uv = DefaultView /\ ub = <<>> /\ uonce = DefaultView
    /\ deliveries = 0 /\ dups = 0
    /\ consumer = "none" /\ records = <<>> /\ idx = 0
    /\ attempted = {} /\ batch_item_failures = <<>>
    /\ kinesis = <<>> /\ accepted = {} /\ rejected = {} /\ round = 0
    /\ feed = <<>>
    /\ s3records = <<>> /\ s3pos = 0 /\ s3pc = "idle" /\ s3result = ""
    /\ s3seen = {} /\ s3issued = <<>> /\ s3deliveries = 0 /\ s3once = <<>>

\* execute_with_metadata, first step: the engine loads the aggregate.
LoadAggregate(w, a, bound) ==
    /\ wk[w].pc = "idle"
    /\ tick < bound
    /\ wk' = [wk EXCEPT ![w] = [IdleWorker EXCEPT
                 !.pc = "loaded", !.agg = a,
                 !.context = load_aggregate(a)]]
    /\ UNCHANGED <<log, snap, views, tick>>
    /\ UNCHANGED viewVars /\ UNCHANGED consumerVars /\ UNCHANGED publisherVars
    /\ UNCHANGED pipelineVars

\* handle on the loaded state, then commit of the resulting events.  The
\* caller's command_id (a fresh ULID) and handle's Utc::now() leave a trace only
\* when the commit succeeds: both are the reading of the clock at the commit.
Execute(w, c) ==
    /\ wk[w].pc = "loaded"
    /\ LET a == wk[w].agg
           ctx == wk[w].context
           r == handle(ctx.aggregate, c, tick + 1)
           md == [k \in {"command_id"} |-> Ulid(tick + 1)]
           written == commit(a, ctx, r.events, md)
       IN IF ~r.ok
          THEN /\ wk' = [wk EXCEPT ![w].pc = "done", ![w].cmd = c, ![w].res = r.err]
               /\ UNCHANGED <<log, snap, tick>>
          ELSE /\ log' = [log EXCEPT ![a] = written.log]
               /\ snap' = [snap EXCEPT ![a] = written.snap]
               /\ IF ~written.ok
                  THEN /\ wk' = [wk EXCEPT ![w].pc = "done", ![w].cmd = c,
                                           ![w].res = "Conflict"]
                       /\ UNCHANGED tick
                  ELSE /\ wk' = [wk EXCEPT ![w].pc = "dispatch", ![w].cmd = c,
                                   ![w].events =
                                      [i \in 1..Len(written.committed) |->
                                         envelope(written.committed[i])]]
                       /\ tick' = tick + 1
    /\ UNCHANGED views
    /\ UNCHANGED viewVars /\ UNCHANGED consumerVars /\ UNCHANGED publisherVars
    /\ UNCHANGED pipelineVars

\* Query::update, first half: repo.load_with_context; an error returns early.
QueryLoad(w, failed) ==
    /\ wk[w].pc = "dispatch"
    /\ IF failed
       THEN wk' = [wk EXCEPT ![w].pc = "done", ![w].verr = TRUE,
                             ![w].res = Query_dispatch("PersistenceError")]
       ELSE LET row == views[wk[w].agg]
            IN wk' = [wk EXCEPT ![w].pc = "project",
                        ![w].view = IF row.version = 0 THEN DefaultView
                                    ELSE deserialize_view(row.payload),
                        ![w].view_version = row.version]
    /\ UNCHANGED <<log, snap, views, tick>>
    /\ UNCHANGED viewVars /\ UNCHANGED consumerVars /\ UNCHANGED publisherVars
    /\ UNCHANGED pipelineVars

\* Query::update, second half: apply the events and repo.update_view, which is
\* refused when the row's version is no longer the loaded one.
QueryWrite(w, failed) ==
    /\ wk[w].pc = "project"
    /\ LET a == wk[w].agg
           v == update_all(wk[w].view, wk[w].events)
           refused == failed \/ views[a].version # wk[w].view_version
       IN IF refused
          THEN /\ wk' = [wk EXCEPT ![w].pc = "done", ![w].verr = TRUE,
                                   ![w].res = Query_dispatch("PersistenceError")]
               /\ UNCHANGED views
          ELSE /\ views' = [views EXCEPT ![a] =
                              [version |-> wk[w].view_version + 1,
                               payload |-> serialize_view(v)]]
               /\ wk' = [wk EXCEPT ![w].pc = "done", ![w].view = v,
                                   ![w].res = Query_dispatch("Ok")]
    /\ UNCHANGED <<log, snap, tick>>
    /\ UNCHANGED viewVars /\ UNCHANGED consumerVars /\ UNCHANGED publisherVars
    /\ UNCHANGED pipelineVars

\* The result has been returned to the caller; the worker takes the next request.
Return(w) ==
    /\ wk[w].pc = "done"
    /\ wk' = [wk EXCEPT ![w] = IdleWorker]
    /\ UNCHANGED <<log, snap, views, tick>>
    /\ UNCHANGED viewVars /\ UNCHANGED consumerVars /\ UNCHANGED publisherVars
    /\ UNCHANGED pipelineVars

Next ==
    \/ \E w \in Workers, a \in AggIds : LoadAggregate(w, a, MaxTick)
    \/ \E w \in Workers : \E c \in Commands(wk[w].agg) : Execute(w, c)
    \/ \E w \in Workers, failed \in BOOLEAN : QueryLoad(w, failed)
    \/ \E w \in Workers, failed \in BOOLEAN : QueryWrite(w, failed)
    \/ \E w \in Workers : Return(w)

Spec == Init /\ [][Next]_vars


\* One worker, one aggregate, long histories: snapshots are taken and loaded.
\* The view table answers every request.
NextReplay ==
    \/ LoadAggregate("w1", "d1", MaxReplayTick)
    \/ \E c \in ReplayCommands("d1") : Execute("w1", c)
    \/ QueryLoad("w1", FALSE)
    \/ QueryWrite("w1", FALSE)
    \/ Return("w1")

SpecReplay == Init /\ [][NextReplay]_vars

\* One worker, one aggregate, every command with several parameter values.
NextSeq ==
    \/ LoadAggregate("w1", "d1", MaxSeqTick)
    \/ \E c \in SeqCommands("d1") : Execute("w1", c)
    \/ \E failed \in BOOLEAN : QueryLoad("w1", failed)
    \/ \E failed \in BOOLEAN : QueryWrite("w1", failed)
    \/ Return("w1")

SpecSeq == Init /\ [][NextSeq]_vars


(***************************************************************************)
(* Properties of command execution                                         *)
(***************************************************************************)
FailureResults == {"NotFound", "Uniqueness", "Forbidden", "Validation", "Conflict"}

\* Worker w takes its Execute step (handle and commit) in the current step.
Executes(w) == wk[w].pc = "loaded" /\ wk'[w].pc # "loaded"

IsPrefix(s, t) == Len(s) <= Len(t) /\ SubSeq(t, 1, Len(s)) = s

RECURSIVE fold_events(_, _, _)
\* The events of a stream applied one at a time, in sequence order, from record i on.
fold_events(state, stream, i) ==
    IF i > Len(stream) THEN state
    ELSE fold_events(apply(state, deserialize_event(stream[i].payload)), stream, i + 1)

\* C1: a commit that still expects head N after another execution has committed
\* at N fails with a concurrency error and leaves the event log (and the
\* snapshot) exactly as it was.
C1_StaleCommitFails ==
    [][\A w \in Workers :
         (/\ Executes(w)
          /\ wk[w].context.current_sequence < Len(log[wk[w].agg])
          /\ handle(wk[w].context.aggregate, wk'[w].cmd, tick + 1).ok)
         => (wk'[w].pc = "done" /\ wk'[w].res = "Conflict"
             /\ log' = log /\ snap' = snap)]_vars

\* Two executions loaded the same head; the first committed, the second lost.
C1_Witness ==
    \E w1, w2 \in Workers :
        /\ w1 # w2 /\ wk[w1].agg = wk[w2].agg
        /\ wk[w1].pc = "done" /\ wk[w1].res = "Conflict"
        /\ wk[w2].events # <<>>
        /\ wk[w2].events[1].sequence = wk[w1].context.current_sequence + 1
        /\ wk[w2].context.current_sequence = wk[w1].context.current_sequence

\* C2: a command execution whose result is a failure went from its handle/commit
\* step straight to its end: in that step no event log, snapshot or view
\* changed, and no projector was dispatched for it.
C2_FailureHasNoEffect ==
    [][\A w \in Workers :
         (wk'[w].res \in FailureResults /\ wk[w].res \notin FailureResults)
         => (/\ Executes(w) /\ wk'[w].pc = "done"
             /\ wk'[w].events = <<>> /\ ~wk'[w].verr
             /\ log' = log /\ snap' = snap /\ views' = views)]_vars

\* A losing commit and a rejected command, with events and a view in place.
C2_Witness ==
    \E w1, w2 \in Workers :
        /\ wk[w1].pc = "done" /\ wk[w1].res = "Conflict"
        /\ wk[w2].pc = "done" /\ wk[w2].res = "Validation"
        /\ \E a \in AggIds : log[a] # <<>> /\ views[a].version > 0

\* C3: StartDispense on a replayed state whose id is set fails with Uniqueness
\* and appends no event, whatever the status.
C3_StartTwiceIsUniqueness ==
    [][\A w \in Workers :
         (/\ Executes(w)
          /\ wk'[w].cmd.type = "StartDispense"
          /\ wk[w].context.aggregate.id # "")
         => (wk'[w].pc = "done" /\ wk'[w].res = "Uniqueness" /\ log' = log)]_vars

\* StartDispense was refused on an aggregate that had reached Complete.
C3_Witness ==
    \E w \in Workers :
        /\ wk[w].pc = "done" /\ wk[w].cmd.type = "StartDispense"
        /\ wk[w].res = "Uniqueness"
        /\ wk[w].context.aggregate.status = "Complete"
        /\ log[wk[w].agg][1].event_type = "Dispense:Started"

\* C4: every command other than StartDispense on a never-started id (empty
\* stream loaded) fails with NotFound and appends no event.
C4_NeverStartedIsNotFound ==
    [][\A w \in Workers :
         (/\ Executes(w)
          /\ wk'[w].cmd.type # "StartDispense"
          /\ wk[w].context.current_sequence = 0)
         => (wk'[w].pc = "done" /\ wk'[w].res = "NotFound" /\ log' = log)]_vars

\* CompleteDispense was refused with NotFound on a never-started id.
C4_Witness ==
    \E w \in Workers :
        /\ wk[w].pc = "done" /\ wk[w].cmd.type = "CompleteDispense"
        /\ wk[w].context.current_sequence = 0
        /\ log[wk[w].agg] = <<>>
        /\ wk[w].res = "NotFound"

\* C5: on a started aggregate CompleteDispense emits Completed exactly when the
\* replayed state has a patient and a non-empty drug list; otherwise it fails
\* with Validation and appends no event.
C5_CompleteNeedsPatientAndDrugs ==
    [][\A w \in Workers :
         (/\ Executes(w)
          /\ wk'[w].cmd.type = "CompleteDispense"
          /\ wk[w].context.aggregate.id # "")
         => LET d == wk[w].context.aggregate
                a == wk[w].agg
            IN IF d.patient_id # None /\ d.drugs # <<>>
               THEN /\ wk'[w].pc = "dispatch"
                    /\ Len(log'[a]) = Len(log[a]) + 1
                    /\ log'[a][Len(log'[a])].event_type = "Dispense:Completed"
               ELSE /\ wk'[w].pc = "done" /\ wk'[w].res = "Validation"
                    /\ log' = log]_vars

\* Started, AddDrugs, AddPatient, Complete: the drugs came before the patient.
C5_Witness ==
    /\ Len(log["d1"]) = 4
    /\ log["d1"][2].event_type = "Dispense:DrugsAdded"
    /\ log["d1"][3].event_type = "Dispense:PatientAdded"
    /\ log["d1"][4].event_type = "Dispense:Completed"
    /\ fold_events(DefaultDispense, log["d1"], 1).status = "Complete"

\* C6: the state hydrated for the next command (latest snapshot plus the events
\* after it, or the full history) is the fold of the committed events, one at a
\* time in sequence order, over the zero-value aggregate.
C6_ReplayEquivalence ==
    \A w \in Workers :
        wk[w].pc = "loaded"
        => /\ wk[w].context.aggregate
                = fold_events(DefaultDispense, log[wk[w].agg], 1)
           /\ wk[w].context.current_sequence = Len(log[wk[w].agg])

\* A state hydrated from a snapshot and an event committed after it.
C6_Witness ==
    \E w \in Workers :
        /\ wk[w].pc = "loaded"
        /\ snap[wk[w].agg].current_snapshot > 0
        /\ wk[w].context.current_sequence > snap[wk[w].agg].current_sequence
        /\ wk[w].context.aggregate.status = "Complete"

GapFree == \A a \in AggIds : \A i \in 1..Len(log[a]) : log[a][i].sequence = i

AppendOnly == \A a \in AggIds : IsPrefix(log[a], log'[a])

\* C7: every later log of an aggregate has its earlier log as a prefix, and the
\* sequence numbers of an aggregate's events are exactly 1..k.
C7_AppendOnlyGapFree == [](GapFree) /\ [][AppendOnly]_vars

\* Two workers have committed to the same stream, one after the other.
C7_Witness ==
    \E a \in AggIds :
        /\ Len(log[a]) >= 2
        /\ \E w1, w2 \in Workers :
              /\ w1 # w2 /\ wk[w1].events # <<>> /\ wk[w2].events # <<>>
              /\ wk[w1].agg = a /\ wk[w2].agg = a

\* C8: when the view load or the view write fails after a commit, the command
\* still ends with success and its events are in the event log.
C8_ViewFailureSwallowed ==
    \A w \in Workers :
        wk[w].verr
        => /\ wk[w].pc = "done" /\ wk[w].res = "Ok"
           /\ wk[w].events # <<>>
           /\ \A i \in 1..Len(wk[w].events) :
                 LET e == wk[w].events[i]
                 IN /\ e.sequence <= Len(log[wk[w].agg])
                    /\ envelope(log[wk[w].agg][e.sequence]) = e

\* A view write failed (the view was left behind the log) and the command ended.
C8_Witness ==
    \E w \in Workers :
        /\ wk[w].verr /\ wk[w].pc = "done"
        /\ views[wk[w].agg].version = 0
        /\ log[wk[w].agg] # <<>>


(***************************************************************************)
(* Duplicate delivery to the view projector                                *)
(***************************************************************************)
NoMetadata == [k \in {} |-> ""]

\* Event payloads a view can be handed.
ViewEvents ==
    {[type |-> "DispenseStarted", id |-> "d1", created_at |-> 1, status |-> "Pending"],
     [type |-> "PrescriptionUploaded", id |-> "d1", prescription_id |-> "rx1",
      url |-> "s3://b/prescriptions/d1/rx1", updated_at |-> 2],
     [type |-> "PrescriptionUploaded", id |-> "d1", prescription_id |-> "rx2",
      url |-> "s3://b/prescriptions/d1/rx2", updated_at |-> 3],
     [type |-> "PrescriptionAnalyzed", id |-> "d1", analysis_data |-> "{}",
      updated_at |-> 3],
     [type |-> "PatientAdded", id |-> "d1", patient_id |-> "p1",
      patient_name |-> "Jane", updated_at |-> 2],
     [type |-> "DrugsAdded", id |-> "d1", drugs |-> <<>>, updated_at |-> 4],
     [type |-> "DrugsAdded", id |-> "d1", drugs |-> <<Aspirin>>, updated_at |-> 3],
     [type |-> "DrugsAdded", id |-> "d1", drugs |-> <<Ibuprofen, Aspirin>>,
      updated_at |-> 4],
     [type |-> "DispenseCompleted", id |-> "d1", updated_at |-> 5],
     [type |-> "DispenseCancelled", id |-> "d1", updated_at |-> 6]}

\* Envelopes: each payload with a command_id, two without one or for another id.
ViewEnvelopes ==
    {[aggregate_id |-> "d1", sequence |-> 1, payload |-> e,
      metadata |-> [k \in {"command_id"} |-> "7"]] : e \in ViewEvents}
    \cup {[aggregate_id |-> "d1", sequence |-> 1,
           payload |-> [type |-> "DispenseCancelled", id |-> "d1", updated_at |-> 6],
           metadata |-> NoMetadata],
          [aggregate_id |-> "d2", sequence |-> 1,
           payload |-> [type |-> "DispenseStarted", id |-> "d2", created_at |-> 2,
                        status |-> "Pending"],
           metadata |-> [k \in {"command_id"} |-> "8"]]}

ViewBatches ==
    {<<e>> : e \in ViewEnvelopes}
    \cup {<<e1, e2>> : e1 \in ViewEnvelopes, e2 \in ViewEnvelopes}

\* Query::update on the stored view: load, apply the batch, write back.
projected(view, batch) ==
    deserialize_view(serialize_view(update_all(view, batch)))

Deliver(b) ==
    /\ deliveries < MaxDeliveries
    /\ uv' = projected(uv, b)
    /\ uonce' = projected(uv, b)
    /\ ub' = b
    /\ deliveries' = deliveries + 1
    /\ dups' = 0
    /\ UNCHANGED engineVars /\ UNCHANGED consumerVars /\ UNCHANGED publisherVars
    /\ UNCHANGED pipelineVars

\* The stream delivers the last batch again.
Redeliver ==
    /\ ub # <<>>
    /\ dups < MaxDups
    /\ uv' = projected(uv, ub)
    /\ dups' = dups + 1
    /\ UNCHANGED <<ub, uonce, deliveries>>
    /\ UNCHANGED engineVars /\ UNCHANGED consumerVars /\ UNCHANGED publisherVars
    /\ UNCHANGED pipelineVars

NextView ==
    \/ \E b \in ViewBatches : Deliver(b)
    \/ Redeliver

SpecView == Init /\ [][NextView]_vars

\* C9: a view to which an envelope, or a batch, has been applied again (once or
\* more) is the view it was after the first application: id, aggregate_type,
\* command_id and Dispense state.
C9_ViewIdempotent == uv = uonce

\* A batch that rewrites the drug list and the status, delivered twice over.
C9_Witness ==
    /\ dups = 2 /\ Len(ub) = 2
    /\ ub[1].payload.type = "DrugsAdded" /\ ub[1].payload.drugs # <<>>
    /\ ub[2].payload.type = "PrescriptionUploaded"
    /\ uv.dispense.drugs # <<>> /\ uv.dispense.status = "Analyzing"
    /\ deliveries = 2


(***************************************************************************)
(* Stream consumers: the generic projector and the analyzer's stream path  *)
(***************************************************************************)
\* Fields of the Domain Event envelope on the stream.
EnvelopeFields ==
    {"id", "aggregate_type", "sequence", "event_type", "event_version",
     "payload", "metadata"}

\* The data of a stream record: bytes that are or are not UTF-8, text that is
\* or is not a JSON object, and the fields the object carries.
StreamData ==
    {[utf8 |-> FALSE, json |-> FALSE, fields |-> {}, event_type |-> ""],
     [utf8 |-> TRUE, json |-> FALSE, fields |-> {}, event_type |-> ""],
     [utf8 |-> TRUE, json |-> TRUE, fields |-> EnvelopeFields \ {"sequence"},
      event_type |-> "Dispense:Started"],
     [utf8 |-> TRUE, json |-> TRUE, fields |-> EnvelopeFields,
      event_type |-> "Dispense:Started"],
     [utf8 |-> TRUE, json |-> TRUE, fields |-> EnvelopeFields,
      event_type |-> "Dispense:PrescriptionUploaded"]}

\* Batches of one shard: up to MaxBatch records with increasing sequence numbers.
StreamBatches ==
    UNION {{[i \in 1..n |-> [sequence_number |-> ToString(k[i]), data |-> d[i]]] :
              k \in {f \in [1..n -> 1..(MaxBatch + 1)] :
                        \A i \in 1..n, j \in 1..n : i < j => f[i] < f[j]},
              d \in [1..n -> StreamData]} : n \in 1..MaxBatch}

\* std::str::from_utf8
from_utf8(data) == IF data.utf8 THEN "Ok" ELSE "Err"

\* serde_json::from_str::<DomainEvent>: every field of the envelope is required.
from_str(data) ==
    IF data.json /\ EnvelopeFields \subseteq data.fields THEN "Ok" ELSE "Err"

\* projector-views handle_record
handle_record(record) ==
    IF from_utf8(record.data) = "Err" THEN "Err"
    ELSE IF from_str(record.data) = "Err" THEN "Err"
    ELSE "Ok"

\* projector-analyzer handle_kinesis_record
handle_kinesis_record(record) ==
    IF from_utf8(record.data) = "Err" THEN "Err"
    ELSE IF from_str(record.data) = "Err" THEN "Err"
    ELSE IF record.data.event_type = "Dispense:PrescriptionUploaded" THEN "Ok"
    ELSE "Ok"

\* A loop body that reports every record, failed or not.
views_failures_reporting_all(failures, record, result) ==
    Append(failures, record.sequence_number)

\* projector-views handle, loop body: push the sequence number on Err.
views_failures(failures, record, result) ==
    IF result = "Err" THEN Append(failures, record.sequence_number) ELSE failures

\* projector-analyzer handle_kinesis_event, loop body: push the sequence number on Err.
analyzer_failures(failures, record, result) ==
    IF result = "Err" THEN Append(failures, record.sequence_number) ELSE failures

InitConsumer ==
    /\ log = [a \in AggIds |-> <<>>]
    /\ snap = [a \in AggIds |-> NoSnapshot]
    /\ views = [a \in AggIds |-> NoViewRow]
    /\ wk = [w \in Workers |-> IdleWorker]
    /\ tick = 0
    /\ uv = DefaultView /\ ub = <<>> /\ uonce = DefaultView
    /\ deliveries = 0 /\ dups = 0
    /\ consumer \in {"views", "analyzer"}
    /\ records \in StreamBatches
    /\ idx = 0 /\ attempted = {} /\ batch_item_failures = <<>>
    /\ kinesis = <<>> /\ accepted = {} /\ rejected = {} /\ round = 0
    /\ feed = <<>>
    /\ s3records = <<>> /\ s3pos = 0 /\ s3pc = "idle" /\ s3result = ""
    /\ s3seen = {} /\ s3issued = <<>> /\ s3deliveries = 0 /\ s3once = <<>>

\* projector-views handle: one iteration of the loop over the batch.
ViewsHandle ==
    /\ consumer = "views"
    /\ idx < Len(records)
    /\ LET record == records[idx + 1]
       IN /\ attempted' = attempted \cup {idx + 1}
          /\ batch_item_failures' =
                views_failures(batch_item_failures, record, handle_record(record))
    /\ idx' = idx + 1
    /\ UNCHANGED <<consumer, records>>
    /\ UNCHANGED engineVars /\ UNCHANGED viewVars /\ UNCHANGED publisherVars
    /\ UNCHANGED pipelineVars

\* projector-analyzer handle_kinesis_event: one iteration of the loop.
AnalyzerHandle ==
    /\ consumer = "analyzer"
    /\ idx < Len(records)
    /\ LET record == records[idx + 1]
       IN /\ attempted' = attempted \cup {idx + 1}
          /\ batch_item_failures' =
                analyzer_failures(batch_item_failures, record,
                                  handle_kinesis_record(record))
    /\ idx' = idx + 1
    /\ UNCHANGED <<consumer, records>>
    /\ UNCHANGED engineVars /\ UNCHANGED viewVars /\ UNCHANGED publisherVars
    /\ UNCHANGED pipelineVars

NextConsumer == ViewsHandle \/ AnalyzerHandle

SpecConsumer == InitConsumer /\ [][NextConsumer]_vars

\* A record's data is not UTF-8 or is not a parseable Domain Event envelope.
Unprocessable(data) ==
    ~data.utf8 \/ ~data.json \/ \E f \in EnvelopeFields : f \notin data.fields

\* C10: when the loop over a batch has ended, every record has been attempted,
\* and the failure list holds the sequence number of each record that is not
\* UTF-8 or not a parseable envelope, once, and of no other record.
C10_FailuresExact ==
    idx = Len(records)
    => /\ attempted = 1..Len(records)
       /\ \A i \in 1..Len(records) :
             Cardinality({j \in 1..Len(batch_item_failures) :
                            batch_item_failures[j] = records[i].sequence_number})
               = IF Unprocessable(records[i].data) THEN 1 ELSE 0
       /\ \A j \in 1..Len(batch_item_failures) :
             \E i \in 1..Len(records) :
                batch_item_failures[j] = records[i].sequence_number

\* Three records, the second fails to parse: exactly the second is reported.
C10_Witness ==
    /\ Len(records) = 3 /\ idx = 3
    /\ ~Unprocessable(records[1].data)
    /\ Unprocessable(records[2].data)
    /\ ~Unprocessable(records[3].data)
    /\ batch_item_failures = <<records[2].sequence_number>>


(***************************************************************************)
(* Publisher: change feed of the event log table -> event stream           *)
(***************************************************************************)
\* Attributes of an Event Log Record item (serde rename_all = "PascalCase").
EventLogFields ==
    {"AggregateTypeAndId", "EventType", "AggregateId", "AggregateType",
     "Metadata", "Payload", "EventVersion", "AggregateIdSequence"}

\* A bytes attribute: UTF-8 text, or bytes that are not UTF-8.
Text(t) == [utf8 |-> TRUE, text |-> t]
Garbled == [utf8 |-> FALSE, text |-> ""]

\* What a change-feed record can be: the insert of a well-formed item, of an
\* item lacking an attribute, of an item whose payload or metadata is not UTF-8,
\* or a change that is not an insert.
FeedKinds == {"insert", "short", "bad_payload", "bad_metadata", "modify", "remove"}

\* The new image of the n-th Event Log Record of aggregate a.
NewImage(a, n, kind) ==
    [fields |-> IF kind = "short" THEN EventLogFields \ {"EventVersion"}
                ELSE EventLogFields,
     AggregateTypeAndId |-> "Dispense:" \o a,
     EventType |-> IF n = 1 THEN "Dispense:Started" ELSE "Dispense:DrugsAdded",
     AggregateId |-> a,
     AggregateType |-> AGGREGATE_TYPE,
     Metadata |-> IF kind = "bad_metadata" THEN Garbled ELSE Text("{}"),
     Payload |-> IF kind = "bad_payload" THEN Garbled ELSE Text("{..}"),
     EventVersion |-> "1.0",
     AggregateIdSequence |-> n]

\* Change-feed batches: up to max records, each of one of the aggregates;
\* the records of one aggregate carry its sequence numbers 1, 2, ... in order.
FeedBatches(max) ==
    UNION {{[i \in 1..n |->
               [event_id |-> "e" \o ToString(i),
                event_name |-> CASE k[i] = "modify" -> "MODIFY"
                                 [] k[i] = "remove" -> "REMOVE"
                                 [] OTHER -> "INSERT",
                new_image |-> NewImage(a[i],
                                 Cardinality({j \in 1..i : a[j] = a[i]}), k[i])]] :
              a \in [1..n -> AggIds], k \in [1..n -> FeedKinds]} : n \in 1..max}

\* serde_dynamo::from_item::<EventLogRecord>: every attribute is required.
from_item(item) ==
    IF EventLogFields \subseteq item.fields THEN "Ok" ELSE "Err"

\* DomainEvent::new
DomainEvent_new(id, aggregate_type, sequence, type, version, payload, metadata) ==
    [id |-> id, aggregate_type |-> aggregate_type, sequence |-> sequence,
     event_type |-> type, event_version |-> version,
     payload |-> payload, metadata |-> metadata]

\* TryFrom<EventLogRecord> for DomainEvent
try_from(record) ==
    IF ~record.Payload.utf8 THEN [ok |-> FALSE, err |-> "Invalid payload UTF-8"]
    ELSE IF ~record.Metadata.utf8 THEN [ok |-> FALSE, err |-> "Invalid metadata UTF-8"]
    ELSE [ok |-> TRUE,
          value |-> DomainEvent_new(record.AggregateId, record.AggregateType,
                                    record.AggregateIdSequence, record.EventType,
                                    record.EventVersion, record.Payload.text,
                                    record.Metadata.text)]

\* publisher handle_record; sent is the answer of the stream to put_record.
\* put is "None" when put_record was not reached.
publisher_handle_record(record, sent) ==
    IF from_item(record.new_image) = "Err"
    THEN [result |-> "Err", put |-> "None"]
    ELSE IF ~try_from(record.new_image).ok
    THEN [result |-> "Err", put |-> "None"]
    ELSE IF ~sent
    THEN [result |-> "Err", put |-> "Err"]
    ELSE [result |-> "Ok", put |-> "Ok",
          request |-> [partition_key |-> record.new_image.AggregateType,
                       data |-> try_from(record.new_image).value]]

\* A loop that treats every record as an insert.
publisher_is_insert_any(record) == TRUE

\* publisher handle: the test on event_name.
publisher_is_insert(record) == record.event_name = "INSERT"

\* A loop body that reports no record.
publisher_failures_dropping(failures, record, result) == failures

\* publisher handle, loop body: push the event id on Err.
publisher_failures(failures, record, result) ==
    IF result = "Err" THEN Append(failures, record.event_id) ELSE failures

InitPublisher ==
    /\ log = [a \in AggIds |-> <<>>]
    /\ snap = [a \in AggIds |-> NoSnapshot]
    /\ views = [a \in AggIds |-> NoViewRow]
    /\ wk = [w \in Workers |-> IdleWorker]
    /\ tick = 0
    /\ uv = DefaultView /\ ub = <<>> /\ uonce = DefaultView
    /\ deliveries = 0 /\ dups = 0
    /\ consumer = "publisher"
    /\ records \in FeedBatches(MaxFeed)
    /\ idx = 0 /\ attempted = {} /\ batch_item_failures = <<>>
    /\ kinesis = <<>> /\ accepted = {} /\ rejected = {} /\ round = 0
    /\ feed = records
    /\ s3records = <<>> /\ s3pos = 0 /\ s3pc = "idle" /\ s3result = ""
    /\ s3seen = {} /\ s3issued = <<>> /\ s3deliveries = 0 /\ s3once = <<>>

\* publisher handle: one iteration of the loop over the batch.
PublisherHandle(sent) ==
    /\ consumer = "publisher"
    /\ idx < Len(records)
    /\ LET record == records[idx + 1]
           r == publisher_handle_record(record, sent)
       IN IF publisher_is_insert(record)
          THEN /\ attempted' = attempted \cup {idx + 1}
               /\ kinesis' = IF r.put = "Ok" THEN Append(kinesis, r.request) ELSE kinesis
               /\ accepted' = IF r.put = "Ok" THEN accepted \cup {idx + 1} ELSE accepted
               /\ rejected' = IF r.put = "Err" THEN rejected \cup {idx + 1} ELSE rejected
               /\ batch_item_failures' =
                     publisher_failures(batch_item_failures, record, r.result)
          ELSE UNCHANGED <<attempted, kinesis, accepted, rejected, batch_item_failures>>
    /\ idx' = idx + 1
    /\ UNCHANGED <<consumer, records, round, feed>>
    /\ UNCHANGED engineVars /\ UNCHANGED viewVars /\ UNCHANGED pipelineVars

\* handle has returned its failure list: the items it names, and only those,
\* are delivered again.
PublisherRetry ==
    /\ consumer = "publisher"
    /\ idx = Len(records)
    /\ batch_item_failures # <<>>
    /\ round < MaxRetries
    /\ records' = SelectSeq(records,
                     LAMBDA rec : \E j \in 1..Len(batch_item_failures) :
                                     batch_item_failures[j] = rec.event_id)
    /\ idx' = 0 /\ attempted' = {} /\ batch_item_failures' = <<>>
    /\ accepted' = {} /\ rejected' = {}
    /\ round' = round + 1
    /\ UNCHANGED <<consumer, kinesis, feed>>
    /\ UNCHANGED engineVars /\ UNCHANGED viewVars /\ UNCHANGED pipelineVars

NextPublisher ==
    \/ \E sent \in BOOLEAN : PublisherHandle(sent)
    \/ PublisherRetry

SpecPublisher == InitPublisher /\ [][NextPublisher]_vars

\* The record's item cannot be parsed or converted to a Domain Event.
Unconvertible(record) ==
    \/ \E f \in EventLogFields : f \notin record.new_image.fields
    \/ ~record.new_image.Payload.utf8
    \/ ~record.new_image.Metadata.utf8

\* Number of times the record's event id is in the failure list.
Reported(record) ==
    Cardinality({j \in 1..Len(batch_item_failures) :
                   batch_item_failures[j] = record.event_id})

\* C11: when the loop over a change-feed batch has ended, every INSERT record
\* whose item converts has been put on the stream, whatever happened to its
\* siblings; the failure list holds, once, the event id of each INSERT record
\* that failed to parse, to convert, or to publish, and no other id; records
\* that are not INSERTs were neither put on the stream nor reported.
C11_PublisherFailuresExact ==
    (consumer = "publisher" /\ idx = Len(records))
    => \A i \in 1..Len(records) :
          LET record == records[i]
          IN IF record.event_name # "INSERT"
             THEN i \notin accepted \cup rejected /\ Reported(record) = 0
             ELSE IF Unconvertible(record)
             THEN i \notin accepted \cup rejected /\ Reported(record) = 1
             ELSE /\ i \in accepted \cup rejected
                  /\ Reported(record) = IF i \in rejected THEN 1 ELSE 0

\* Three records: a failed publish, a change that is not an insert, and an
\* insert published after both; only the first is reported.
C11_Witness ==
    /\ consumer = "publisher" /\ round = 0
    /\ Len(records) = 3 /\ idx = 3
    /\ records[1].event_name = "INSERT" /\ 1 \in rejected
    /\ records[2].event_name = "MODIFY"
    /\ records[3].event_name = "INSERT" /\ 3 \in accepted
    /\ batch_item_failures = <<records[1].event_id>>
    /\ Len(kinesis) = 1


(***************************************************************************)
(* Analysis pipeline: upload notifications -> UploadPrescription,          *)
(* AnalyzePrescription                                                     *)
(***************************************************************************)
\* Option::None of record.s3.object.key; a key has at least one segment.
NoKey == <<>>

\* Object keys, written as the segments that key.split('/') yields.
S3Keys ==
    {<<"prescriptions", "d1", "scan.png">>,
     <<"unrelated", "file.png">>,
     <<"prescriptions">>,
     <<"prescriptions", "">>,
     <<"prescriptions", "d1">>}

\* Upload notifications: a bucket and a key, either of which can be missing.
S3Records ==
    {[bucket |-> "b", key |-> k] : k \in S3Keys}
    \cup {[bucket |-> None, key |-> <<"prescriptions", "d1", "scan.png">>],
          [bucket |-> "b", key |-> NoKey]}

S3Batches == UNION {[1..n -> S3Records] : n \in 1..MaxS3Batch}

\* The aggregate ids the pipeline can address: those of the API and the empty
\* segment of the key "prescriptions/".
PipelineIds == AggIds \cup {""}

\* The text of a key: its segments joined by '/'.
RECURSIVE key_text(_)
key_text(key) ==
    IF Len(key) = 1 THEN key[1] ELSE key[1] \o "/" \o key_text(Tail(key))

\* handle_s3_event: parts.len() >= 2 && parts[0] == "prescriptions"
is_prescription_key(parts) ==
    Len(parts) >= 2 /\ parts[1] = "prescriptions"

\* handle_s3_event: dispense_id = parts[1] (Rust indexes from 0)
dispense_id(parts) == parts[2]

\* handle_s3_event, step 1: the UploadPrescription command.
upload_command(record, now) ==
    [type |-> "UploadPrescription", prescription_id |-> Ulid(now),
     url |-> "s3://" \o record.bucket \o "/" \o key_text(record.key)]

\* Step 3 issuing the upload again instead of the analysis.
analyze_command_reupload(record, now) == upload_command(record, now)

\* handle_s3_event, step 3: the AnalyzePrescription command; the mock analysis
\* names the file.
analyze_command(record, now) ==
    [type |-> "AnalyzePrescription",
     analysis_data |-> "{file_key:" \o key_text(record.key) \o "}"]

\* Commands of the API client that runs beside the pipeline.
ApiCommands ==
    {[type |-> "StartDispense", id |-> "d1"],
     [type |-> "AddPatient", patient_id |-> "p1", name |-> "Jane"]}

\* The pipeline's commits are bounded by its batch, not by the clock.
PipelineTickCap == MaxPipelineTick + 2 * MaxS3Batch * MaxS3Deliveries

InitPipeline ==
    /\ log = [a \in PipelineIds |-> <<>>]
    /\ snap = [a \in PipelineIds |-> NoSnapshot]
    /\ views = [a \in PipelineIds |-> NoViewRow]
    /\ wk = [w \in Workers |-> IdleWorker]
    /\ tick = 0
    /\ uv = DefaultView /\ ub = <<>> /\ uonce = DefaultView
    /\ deliveries = 0 /\ dups = 0
    /\ consumer = "none" /\ records = <<>> /\ idx = 0
    /\ attempted = {} /\ batch_item_failures = <<>>
    /\ kinesis = <<>> /\ accepted = {} /\ rejected = {} /\ round = 0
    /\ feed = <<>>
    /\ s3records \in S3Batches
    /\ s3pos = 0 /\ s3pc = "next" /\ s3result = ""
    /\ s3seen = {} /\ s3issued = <<>> /\ s3deliveries = 1 /\ s3once = <<>>

\* handle_s3_event, top of the loop body: bucket, key, and the test of the key.
S3Next ==
    /\ s3pc = "next"
    /\ s3pos < Len(s3records)
    /\ LET record == s3records[s3pos + 1]
       IN /\ s3seen' = s3seen \cup {s3pos + 1}
          /\ IF record.bucket = None \/ record.key = NoKey
             THEN /\ s3pc' = "returned" /\ s3result' = "Err"
                  /\ UNCHANGED s3pos
             ELSE IF is_prescription_key(record.key)
             THEN /\ s3pc' = "upload"
                  /\ UNCHANGED <<s3pos, s3result>>
             ELSE /\ s3pos' = s3pos + 1
                  /\ UNCHANGED <<s3pc, s3result>>
    /\ UNCHANGED <<s3records, s3issued, s3deliveries, s3once>>
    /\ UNCHANGED engineVars /\ UNCHANGED viewVars
    /\ UNCHANGED consumerVars /\ UNCHANGED publisherVars

\* execute_with_metadata of step 1 or step 3: the engine loads the aggregate.
S3Load ==
    /\ s3pc \in {"upload", "analyze"}
    /\ LoadAggregate("w1", dispense_id(s3records[s3pos + 1].key), PipelineTickCap)

\* Step 1: handle and commit of UploadPrescription.
S3Upload ==
    /\ s3pc = "upload"
    /\ Execute("w1", upload_command(s3records[s3pos + 1], tick + 1))

\* Step 3: handle and commit of AnalyzePrescription.
S3Analyze ==
    /\ s3pc = "analyze"
    /\ Execute("w1", analyze_command(s3records[s3pos + 1], tick + 1))

\* execute_with_metadata(...).await?: an error leaves handle_s3_event; success
\* goes on to the download (after step 1) or to the next record (after step 3).
S3Returned ==
    /\ s3pc \in {"upload", "analyze"}
    /\ wk["w1"].pc = "done"
    /\ s3issued' = Append(s3issued,
                      [delivery |-> s3deliveries, record |-> s3pos + 1,
                       aggregate |-> wk["w1"].agg,
                       command |-> wk["w1"].cmd, res |-> wk["w1"].res,
                       sequence |-> IF wk["w1"].events = <<>> THEN 0
                                    ELSE wk["w1"].events[1].sequence])
    /\ IF wk["w1"].res # "Ok"
       THEN /\ s3pc' = "returned" /\ s3result' = "Err"
            /\ UNCHANGED s3pos
       ELSE IF s3pc = "upload"
       THEN /\ s3pc' = "download"
            /\ UNCHANGED <<s3pos, s3result>>
       ELSE /\ s3pc' = "next" /\ s3pos' = s3pos + 1
            /\ UNCHANGED s3result
    /\ wk' = [wk EXCEPT !["w1"] = IdleWorker]
    /\ UNCHANGED <<s3records, s3seen, s3deliveries, s3once>>
    /\ UNCHANGED <<log, snap, views, tick>>
    /\ UNCHANGED viewVars /\ UNCHANGED consumerVars /\ UNCHANGED publisherVars

\* Step 2: download_from_s3(...).await?; fetched is the answer of the object store.
S3Download(fetched) ==
    /\ s3pc = "download"
    /\ IF fetched
       THEN s3pc' = "analyze" /\ UNCHANGED s3result
       ELSE s3pc' = "returned" /\ s3result' = "Err"
    /\ UNCHANGED <<s3records, s3pos, s3seen, s3issued, s3deliveries, s3once>>
    /\ UNCHANGED engineVars /\ UNCHANGED viewVars
    /\ UNCHANGED consumerVars /\ UNCHANGED publisherVars

\* The loop has passed every record: Ok(()).
S3Finish ==
    /\ s3pc = "next"
    /\ s3pos = Len(s3records)
    /\ s3pc' = "returned" /\ s3result' = "Ok"
    /\ UNCHANGED <<s3records, s3pos, s3seen, s3issued, s3deliveries, s3once>>
    /\ UNCHANGED engineVars /\ UNCHANGED viewVars
    /\ UNCHANGED consumerVars /\ UNCHANGED publisherVars

\* The same notification batch is delivered again: a duplicate after Ok, the
\* retry of the invocation after Err.
S3Redeliver ==
    /\ s3pc = "returned"
    /\ s3deliveries < MaxS3Deliveries
    /\ s3once' = Append(s3once, [log |-> log, result |-> s3result])
    /\ s3deliveries' = s3deliveries + 1
    /\ s3pos' = 0 /\ s3pc' = "next" /\ s3result' = "" /\ s3seen' = {}
    /\ UNCHANGED <<s3records, s3issued>>
    /\ UNCHANGED engineVars /\ UNCHANGED viewVars
    /\ UNCHANGED consumerVars /\ UNCHANGED publisherVars

NextPipeline ==
    \/ S3Next
    \/ S3Load
    \/ S3Upload
    \/ \E fetched \in BOOLEAN : S3Download(fetched)
    \/ S3Analyze
    \/ S3Returned
    \/ S3Finish
    \/ S3Redeliver
    \/ \E w \in Workers : QueryLoad(w, FALSE)
    \/ \E w \in Workers : QueryWrite(w, FALSE)
    \/ LoadAggregate("w2", "d1", MaxPipelineTick)
    \/ \E c \in ApiCommands : Execute("w2", c)
    \/ Return("w2")

SpecPipeline == InitPipeline /\ [][NextPipeline]_vars

\* The executions the pipeline made for record i in delivery d.
IssuedFor(d, i) ==
    SelectSeq(s3issued, LAMBDA c : c.delivery = d /\ c.record = i)

\* C12: for every record of the current delivery that the loop has passed and
\* whose key names a dispense, the pipeline executed exactly two commands
\* against that dispense, UploadPrescription (with the object's location) and
\* then AnalyzePrescription; both succeeded; the log of the dispense, which
\* begins with DispenseStarted, holds the PrescriptionUploaded event and after
\* it the PrescriptionAnalyzed event they appended, and the state at that
\* event has status Ready.
C12_UploadThenAnalyze ==
    \A i \in 1..Len(s3records) :
       (s3pc \in {"next", "returned"} /\ i <= s3pos
        /\ is_prescription_key(s3records[i].key))
       => LET a == dispense_id(s3records[i].key)
              mine == IssuedFor(s3deliveries, i)
          IN /\ Len(mine) = 2
             /\ mine[1].aggregate = a /\ mine[2].aggregate = a
             /\ mine[1].command.type = "UploadPrescription"
             /\ mine[1].command.url = "s3://b/" \o key_text(s3records[i].key)
             /\ mine[2].command.type = "AnalyzePrescription"
             /\ mine[1].res = "Ok" /\ mine[2].res = "Ok"
             /\ 1 < mine[1].sequence /\ mine[1].sequence < mine[2].sequence
             /\ mine[2].sequence <= Len(log[a])
             /\ log[a][1].event_type = "Dispense:Started"
             /\ log[a][mine[1].sequence].event_type = "Dispense:PrescriptionUploaded"
             /\ log[a][mine[2].sequence].event_type = "Dispense:PrescriptionAnalyzed"
             /\ fold_events(DefaultDispense,
                            SubSeq(log[a], 1, mine[2].sequence), 1).status = "Ready"

\* The notification for prescriptions/d1/scan.png has been processed once:
\* the log of d1 is Started, PrescriptionUploaded, PrescriptionAnalyzed.
C12_Witness ==
    /\ s3deliveries = 1 /\ s3pc = "returned" /\ s3result = "Ok"
    /\ Len(s3records) = 1
    /\ s3records[1].key = <<"prescriptions", "d1", "scan.png">>
    /\ Len(s3issued) = 2
    /\ Len(log["d1"]) = 3
    /\ log["d1"][2].event_type = "Dispense:PrescriptionUploaded"
    /\ log["d1"][3].event_type = "Dispense:PrescriptionAnalyzed"
    /\ fold_events(DefaultDispense, log["d1"], 1).status = "Ready"

\* The key has the form prescriptions/<non-empty segment>/<rest>.
WellFormedKey(parts) ==
    Len(parts) >= 3 /\ parts[1] = "prescriptions" /\ parts[2] # ""

\* C13: when the loop reaches a record whose key is not of the form
\* prescriptions/<non-empty segment>/<rest>, it goes on to the next record:
\* no command is started, no event log changes, and handle_s3_event does not
\* return an error.
C13_MalformedKeyIgnored ==
    [][(/\ s3pc = "next" /\ s3pos < Len(s3records)
        /\ s3seen' # s3seen
        /\ s3records[s3pos + 1].bucket # None
        /\ s3records[s3pos + 1].key # NoKey
        /\ ~WellFormedKey(s3records[s3pos + 1].key))
       => (/\ s3pc' = "next" /\ s3pos' = s3pos + 1
           /\ s3result' = s3result
           /\ s3issued' = s3issued
           /\ log' = log)]_vars


(***************************************************************************)
(* The status machine and the optional fields, over the event log          *)
(***************************************************************************)
\* The aggregate state that an event log folds to.
StateOfLog(l) == fold_events(DefaultDispense, l, 1)

\* C14: once the status of an aggregate is Complete or Cancelled, no commit
\* changes it.
C14_TerminalIsFinal ==
    [][\A a \in AggIds :
          StateOfLog(log[a]).status \in {"Complete", "Cancelled"}
          => StateOfLog(log'[a]).status = StateOfLog(log[a]).status]_vars

\* Pending -> Analyzing -> Ready -> Complete, and any of the first three -> Cancelled.
StatusMachine ==
    {<<"Pending", "Analyzing">>, <<"Analyzing", "Ready">>, <<"Ready", "Complete">>}
    \cup {<<s, "Cancelled">> : s \in {"Pending", "Analyzing", "Ready"}}

\* C19: every change of an aggregate's status made by a commit is a transition
\* of the state machine.
C19_StatusFollowsMachine ==
    [][\A a \in AggIds :
          StateOfLog(log'[a]).status # StateOfLog(log[a]).status
          => <<StateOfLog(log[a]).status, StateOfLog(log'[a]).status>> \in StatusMachine]_vars

\* C20: once set, prescription id and url, and patient id and name, keep their
\* values under every later commit, and prescription_analyzed stays true.
C20_OptionalFieldsSetOnce ==
    [][\A a \in AggIds :
          LET before == StateOfLog(log[a])
              after == StateOfLog(log'[a])
          IN /\ before.prescription_id # None
                => /\ after.prescription_id = before.prescription_id
                   /\ after.prescription_url = before.prescription_url
             /\ before.patient_id # None
                => /\ after.patient_id = before.patient_id
                   /\ after.patient_name = before.patient_name
             /\ before.prescription_analyzed => after.prescription_analyzed]_vars


(***************************************************************************)
(* The analysis pipeline under duplicate delivery and failing records      *)
(***************************************************************************)
\* Number of events of the given type in an event log.
CountOf(l, type) == Cardinality({i \in 1..Len(l) : l[i].event_type = type})

\* C15: when a batch of upload notifications has been processed without error
\* and then, delivered again, processed without error again, every dispense
\* named by a key of the batch has the status, prescription id and prescription
\* url it had after the first processing, and its log holds as many
\* PrescriptionUploaded and PrescriptionAnalyzed events as it held then.
C15_DuplicateDeliveryIdempotent ==
    (/\ s3deliveries > 1 /\ s3pc = "returned" /\ s3result = "Ok"
     /\ s3once[1].result = "Ok")
    => \A i \in 1..Len(s3records) :
          WellFormedKey(s3records[i].key)
          => LET a == dispense_id(s3records[i].key)
                 once == s3once[1].log[a]
                 twice == log[a]
             IN /\ StateOfLog(twice).status = StateOfLog(once).status
                /\ StateOfLog(twice).prescription_id = StateOfLog(once).prescription_id
                /\ StateOfLog(twice).prescription_url = StateOfLog(once).prescription_url
                /\ CountOf(twice, "Dispense:PrescriptionUploaded")
                      = CountOf(once, "Dispense:PrescriptionUploaded")
                /\ CountOf(twice, "Dispense:PrescriptionAnalyzed")
                      = CountOf(once, "Dispense:PrescriptionAnalyzed")

\* C16: when handle_s3_event has returned, the loop has reached every record
\* of the batch: a record that failed (missing bucket or key, rejected command,
\* conflict, failed download) has not kept the later records from being
\* processed.
C16_S3FailureIsolated ==
    s3pc = "returned" => s3seen = 1..Len(s3records)


(***************************************************************************)
(* Concurrency conflicts and the engine's callers                          *)
(***************************************************************************)
\* C17: the caller of the engine never hands the concurrency error of a commit
\* back to its requester: a request whose commit met a conflict does not end
\* there (its caller runs load, handle and commit again), so every request
\* that ends was committed or was rejected by validation.
C17_ConflictIsRetried ==
    [][\A w \in Workers :
          (wk[w].pc = "done" /\ wk'[w].pc = "idle") => wk[w].res # "Conflict"]_vars


(***************************************************************************)
(* Order of publication                                                    *)
(***************************************************************************)
\* Position of the first publication of the event (id, sequence) on the stream.
FirstPublished(id, sequence) ==
    CHOOSE i \in 1..Len(kinesis) :
       /\ kinesis[i].data.id = id /\ kinesis[i].data.sequence = sequence
       /\ \A j \in 1..(i - 1) :
             ~(kinesis[j].data.id = id /\ kinesis[j].data.sequence = sequence)

\* C18: of any two published events of one aggregate, the one with the lower
\* sequence number was first put on the stream before the other was, also
\* after failed items have been delivered again.
C18_PublishedInLogOrder ==
    \A i \in 1..Len(kinesis), j \in 1..Len(kinesis) :
       (/\ kinesis[i].data.id = kinesis[j].data.id
        /\ kinesis[i].partition_key = kinesis[j].partition_key
        /\ kinesis[i].data.sequence < kinesis[j].data.sequence)
       => FirstPublished(kinesis[i].data.id, kinesis[i].data.sequence)
             < FirstPublished(kinesis[j].data.id, kinesis[j].data.sequence)


(***************************************************************************)
(* The view against the event log                                          *)
(***************************************************************************)
\* The view stored for aggregate a.
StoredView(row) == deserialize_view(row.payload)

\* C21: whenever a dispatch writes the view of an aggregate, the written view's
\* Dispense is the fold of the aggregate's complete event log, also when the
\* view write of an earlier commit had failed: no committed event is missing
\* from the view after a successful projection.
C21_ViewRepairedByNextProjection ==
    [][\A a \in AggIds :
          views'[a] # views[a]
          => StoredView(views'[a]).dispense = StateOfLog(log'[a])]_vars

\* No execution is in flight.
Quiescent == \A w \in Workers : wk[w].pc = "idle"

\* Every commit to aggregate a was followed by a view write that succeeded:
\* each commit appends one record and each successful write adds one to the
\* row's version.
EveryProjectionSucceeded(a) == views[a].version = Len(log[a])

\* C22: when no execution is in flight and every dispatch for an aggregate has
\* loaded and written its view without error, the view's Dispense is the fold
\* of the aggregate's event log, its id is the aggregate id and its command_id
\* is that of the last committed command.
C22_QuiescentViewConsistent ==
    \A a \in AggIds :
       (Quiescent /\ log[a] # <<>> /\ EveryProjectionSucceeded(a))
       => /\ StoredView(views[a]).dispense = StateOfLog(log[a])
          /\ StoredView(views[a]).id = a
          /\ StoredView(views[a]).command_id
                = log[a][Len(log[a])].metadata["command_id"]


(***************************************************************************)
(* Publication under transient failures and unbounded re-delivery          *)
(***************************************************************************)
\* Records whose items parse and convert: their only failures are transient
\* (sent = FALSE stands for a failure that a later attempt does not repeat).
LiveFeedBatches(max) ==
    {b \in FeedBatches(max) : \A i \in 1..Len(b) : ~Unconvertible(b[i])}

InitPublisherLive ==
    /\ log = [a \in AggIds |-> <<>>]
    /\ snap = [a \in AggIds |-> NoSnapshot]
    /\ views = [a \in AggIds |-> NoViewRow]
    /\ wk = [w \in Workers |-> IdleWorker]
    /\ tick = 0
    /\ uv = DefaultView /\ ub = <<>> /\ uonce = DefaultView
    /\ deliveries = 0 /\ dups = 0
    /\ consumer = "publisher"
    /\ records \in LiveFeedBatches(MaxFeed)
    /\ idx = 0 /\ attempted = {} /\ batch_item_failures = <<>>
    /\ kinesis = <<>> /\ accepted = {} /\ rejected = {} /\ round = 0
    /\ feed = records
    /\ s3records = <<>> /\ s3pos = 0 /\ s3pc = "idle" /\ s3result = ""
    /\ s3seen = {} /\ s3issued = <<>> /\ s3deliveries = 0 /\ s3once = <<>>

\* The stream infrastructure delivers the reported items again, as often as
\* the handler reports any; round counts the re-deliveries up to MaxRetries.
PublisherRedeliver ==
    /\ consumer = "publisher"
    /\ idx = Len(records)
    /\ batch_item_failures # <<>>
    /\ records' = SelectSeq(records,
                     LAMBDA rec : \E j \in 1..Len(batch_item_failures) :
                                     batch_item_failures[j] = rec.event_id)
    /\ idx' = 0 /\ attempted' = {} /\ batch_item_failures' = <<>>
    /\ accepted' = {} /\ rejected' = {}
    /\ round' = IF round < MaxRetries THEN round + 1 ELSE round
    /\ UNCHANGED <<consumer, kinesis, feed>>
    /\ UNCHANGED engineVars /\ UNCHANGED viewVars /\ UNCHANGED pipelineVars

NextPublisherLive ==
    \/ \E sent \in BOOLEAN : PublisherHandle(sent)
    \/ PublisherRedeliver

\* The handler runs to the end of its batch, the infrastructure keeps
\* re-delivering, and no record fails for ever.
SpecPublisherLive ==
    /\ InitPublisherLive /\ [][NextPublisherLive]_vars
    /\ WF_vars(\E sent \in BOOLEAN : PublisherHandle(sent))
    /\ WF_vars(PublisherRedeliver)
    /\ SF_vars(PublisherHandle(TRUE))

\* The stream holds an envelope with the fields of the Event Log Record.
Published(record) ==
    \E j \in 1..Len(kinesis) :
       /\ kinesis[j].data.id = record.new_image.AggregateId
       /\ kinesis[j].data.aggregate_type = record.new_image.AggregateType
       /\ kinesis[j].data.sequence = record.new_image.AggregateIdSequence
       /\ kinesis[j].data.event_type = record.new_image.EventType
       /\ kinesis[j].data.event_version = record.new_image.EventVersion
       /\ kinesis[j].data.payload = record.new_image.Payload.text
       /\ kinesis[j].data.metadata = record.new_image.Metadata.text

\* C23: when failures are transient and failed items keep being delivered
\* again, every record inserted into the event log is eventually on the
\* stream, as an envelope with its aggregate id, aggregate type, sequence,
\* event type, event version, payload and metadata.
C23_EventuallyPublished ==
    <>(\A i \in 1..Len(feed) :
          feed[i].event_name = "INSERT" => Published(feed[i]))

\* An insert whose publication failed has been delivered again and is on the
\* stream, after a sibling that was published at the first attempt.
C23_Witness ==
    /\ consumer = "publisher" /\ round = MaxRetries /\ Len(feed) >= 2
    /\ feed[1].event_name = "INSERT" /\ feed[2].event_name = "INSERT"
    /\ Len(records) = 1 /\ records[1] = feed[1] /\ idx = 1 /\ 1 \in accepted
    /\ Published(feed[1]) /\ Published(feed[2])
    /\ kinesis[Len(kinesis)].data.sequence = feed[1].new_image.AggregateIdSequence
    /\ kinesis[Len(kinesis)].data.id = feed[1].new_image.AggregateId


(***************************************************************************)
(* A pipeline that stops between its two commands                          *)
(***************************************************************************)
\* handle_s3_event has returned Err after the UploadPrescription of record i
\* committed and before an AnalyzePrescription for it was issued, and no other
\* command has been committed on the aggregate since.
StoppedAfterUpload(i) ==
    /\ s3pc = "returned" /\ s3result = "Err"
    /\ i = Len(s3issued)
    /\ s3issued[i].delivery = s3deliveries
    /\ s3issued[i].command.type = "UploadPrescription"
    /\ s3issued[i].res = "Ok"
    /\ log[s3issued[i].aggregate][Len(log[s3issued[i].aggregate])].sequence
          = s3issued[i].sequence

\* C24: when the pipeline stops after its UploadPrescription committed and
\* before its AnalyzePrescription commits, the aggregate has status Analyzing,
\* a prescription id and url, and prescription_analyzed false, in every
\* interleaving with other commands and in re-deliveries of the notification.
C24_StoppedPipelineLeavesAnalyzing ==
    \A i \in 1..Len(s3issued) :
       StoppedAfterUpload(i)
       => LET state == StateOfLog(log[s3issued[i].aggregate])
          IN /\ state.status = "Analyzing"
             /\ state.prescription_id # None
             /\ state.prescription_url # None
             /\ state.prescription_analyzed = FALSE


(***************************************************************************)
(* AddPatient and AddDrugs in every status                                 *)
(***************************************************************************)
\* The fields that the event of an accepted AddPatient or AddDrugs sets.
SetByCommand(state, command) ==
    IF command.type = "AddPatient"
    THEN /\ state.patient_id = command.patient_id
         /\ state.patient_name = command.name
    ELSE state.drugs = command.drugs

AddedType(command) ==
    IF command.type = "AddPatient" THEN "PatientAdded" ELSE "DrugsAdded"

\* C25: AddPatient and AddDrugs are accepted on every started, non-deleted
\* aggregate whatever its status, Complete and Cancelled included; each appends
\* exactly one event (PatientAdded / DrugsAdded) that sets the patient or drug
\* fields to the command's and leaves the status as it was.
C25_AddAcceptedInEveryStatus ==
    [][\A w \in Workers :
         (/\ wk[w].pc = "loaded" /\ wk'[w].pc # "loaded"
          /\ wk'[w].cmd.type \in {"AddPatient", "AddDrugs"}
          /\ StateOfLog(log[wk[w].agg]).id # ""
          /\ ~StateOfLog(log[wk[w].agg]).deleted)
         => LET a == wk[w].agg
                n == Len(log[a])
            IN /\ wk'[w].pc = "dispatch"
               /\ Len(log'[a]) = n + 1
               /\ SubSeq(log'[a], 1, n) = log[a]
               /\ log'[a][n + 1].payload.type = AddedType(wk'[w].cmd)
               /\ SetByCommand(StateOfLog(log'[a]), wk'[w].cmd)
               /\ StateOfLog(log'[a]).status = StateOfLog(log[a]).status]_vars

\* AddDrugs has been accepted on a completed aggregate, which stays Complete.
C25_Witness ==
    /\ Len(log["d1"]) = 5
    /\ log["d1"][4].payload.type = "DispenseCompleted"
    /\ log["d1"][5].payload.type = "DrugsAdded"
    /\ StateOfLog(log["d1"]).status = "Complete"


(***************************************************************************)
(* Commands on a completed dispense                                        *)
(***************************************************************************)
\* One request handler at a time, every command type, with an empty and a
\* non-empty drug list, and no failure of the view store.
NextAmend ==
    \/ LoadAggregate("w1", "d1", MaxAmendTick)
    \/ \E c \in Commands("d1") : Execute("w1", c)
    \/ QueryLoad("w1", FALSE)
    \/ QueryWrite("w1", FALSE)
    \/ Return("w1")

SpecAmend == Init /\ [][NextAmend]_vars

\* C26: in every reachable state an aggregate whose status is Complete has a
\* patient set and a non-empty drug list.
C26_CompleteHasPatientAndDrugs ==
    \A a \in AggIds :
       StateOfLog(log[a]).status = "Complete"
       => /\ StateOfLog(log[a]).patient_id # None
          /\ StateOfLog(log[a]).drugs # <<>>


(***************************************************************************)
(* The drug list                                                           *)
(***************************************************************************)
RECURSIVE LastDrugs(_, _)
\* The list of the last DrugsAdded among the first n records of stream l, the
\* empty list when there is none.
LastDrugs(l, n) ==
    IF n = 0 THEN <<>>
    ELSE IF deserialize_event(l[n].payload).type = "DrugsAdded"
    THEN deserialize_event(l[n].payload).drugs
    ELSE LastDrugs(l, n - 1)

\* C27: after any sequence of accepted commands the drug list of the aggregate
\* is the list of the most recent accepted AddDrugs, item for item and in the
\* same order, and is empty when no AddDrugs was accepted; an accepted AddDrugs
\* records exactly the list it carries.
C27_DrugsAreLastAdded ==
    /\ \A a \in AggIds :
          StateOfLog(log[a]).drugs = LastDrugs(log[a], Len(log[a]))
    /\ \A w \in Workers :
          (wk[w].pc = "dispatch" /\ wk[w].cmd.type = "AddDrugs")
          => LastDrugs(log[wk[w].agg], Len(log[wk[w].agg])) = wk[w].cmd.drugs

\* A second AddDrugs has replaced the non-empty list of a first one.
C27_Witness ==
    /\ Len(log["d1"]) = 3
    /\ LastDrugs(log["d1"], 2) = <<Aspirin>>
    /\ wk["w1"].pc = "dispatch" /\ wk["w1"].cmd.type = "AddDrugs"
    /\ wk["w1"].cmd.drugs = <<Ibuprofen, Aspirin>>
    /\ StateOfLog(log["d1"]).drugs = <<Ibuprofen, Aspirin>>


(***************************************************************************)
(* The shape of an aggregate's stream                                      *)
(***************************************************************************)
\* A stream is empty or opens with its only Started event, whose id and
\* created_at are those of the folded state.
StartedOnceFirst(l) ==
    l # <<>>
    => /\ l[1].event_type = "Dispense:Started"
       /\ CountOf(l, "Dispense:Started") = 1
       /\ StateOfLog(l).id = deserialize_event(l[1].payload).id
       /\ StateOfLog(l).created_at = deserialize_event(l[1].payload).created_at

\* An execution that ends in success has appended one record to the stream of
\* its aggregate and none to any other; any other step appends nothing.
OneEventPerAccepted ==
    \A a \in AggIds :
       IF \E w \in Workers : Executes(w) /\ wk'[w].pc = "dispatch" /\ wk[w].agg = a
       THEN Len(log'[a]) = Len(log[a]) + 1 /\ IsPrefix(log[a], log'[a])
       ELSE log'[a] = log[a]

\* C28: each non-empty stream starts with a Started event and holds exactly one
\* Started event, every accepted command has appended exactly one event, and
\* the aggregate's id and created_at stay those of that first event.
C28_StreamShape ==
    [](\A a \in AggIds : StartedOnceFirst(log[a])) /\ [][OneEventPerAccepted]_vars

\* A second StartDispense on a started aggregate was refused, and another
\* command was then accepted on it.
C28_Witness ==
    \E a \in AggIds : \E w1, w2 \in Workers :
        /\ wk[w1].pc = "done" /\ wk[w1].agg = a
        /\ wk[w1].cmd.type = "StartDispense" /\ wk[w1].res = "Uniqueness"
        /\ wk[w2].pc = "dispatch" /\ wk[w2].agg = a
        /\ wk[w2].cmd.type = "AddPatient"
        /\ Len(log[a]) = 2 /\ StateOfLog(log[a]).id = a
        /\ StateOfLog(log[a]).created_at = 1

====
